---- MODULE Spec2Model ----
(***************************************************************************)
(* Complex steerable pyramid (steerable/SCFpyr_NumPy.py,                   *)
(* steerable/SCFpyr_PyTorch.py): the build and reconstruct calls and the   *)
(* level_size query, modelled at the level of array shapes, list           *)
(* structure, the order of the computations and the exceptions raised.     *)
(* Array contents are not computed (they are FFT values); the one sample   *)
(* value the model carries is the real part of one output pixel, in        *)
(* tenths, to which reconstruct applies astype(int).                       *)
(*                                                                         *)
(* Python values are encoded as follows.  An optional value (None or a     *)
(* value) is a sequence of length 0 or 1.  A 2D ndarray is a record with   *)
(* kind "ndarray" and its shape; a Python list of arrays is a record with  *)
(* kind "list" and the sequence of its items' shapes.  Python index i is   *)
(* TLA+ index i+1.                                                         *)
(***************************************************************************)
EXTENDS Integers, Sequences, FiniteSets, TLC

\* ---------------------------------------------------------------- bounds
MaxExp == 7
MaxHeight == 5
MaxBands == 4
MaxTenths == 20

Min(a, b) == IF a <= b THEN a ELSE b
Max(a, b) == IF a >= b THEN a ELSE b

RECURSIVE Pow2(_)
Pow2(n) == IF n <= 0 THEN 1 ELSE 2 * Pow2(n - 1)

\* Image side lengths: the powers of two up to 2^MaxExp and their successors
\* (odd sides exercise the crop formula's rounding).  Sides are positive:
\* log2 of an empty axis is not a finite number.
Sizes == {Pow2(e) : e \in 0..MaxExp} \cup {Pow2(e) + 1 : e \in 0..MaxExp}

Heights == 0..MaxHeight
Bands == 1..MaxBands
Backends == {"NumPy", "PyTorch"}
\* scale_factor: the default 2 and one other power of two
ScaleFactors == {2, 4}
\* Real parts of an output pixel, in tenths: fractional parts .0 .3 .5 .7
Samples == {t \in (0 - MaxTenths)..MaxTenths : t % 10 \in {0, 3, 5, 7}}

\* im.shape of the arrays handed to build: 1D arrays, 2D images whose longer
\* side is at most about twice the shorter, and batches of one square image.
ImShapes ==
    {<<h>> : h \in Sizes}
        \cup {<<h, w>> \in Sizes \X Sizes : Max(h, w) <= 2 * Min(h, w) + 1}
        \cup {<<1, h, h>> : h \in Sizes}

\* ------------------------------------------------------- Python helpers
\* ceil(a / b) for integers a >= 0, b > 0
CeilDiv(a, b) == (a + b - 1) \div b

\* int(np.floor(np.log2(n))) for n >= 1
RECURSIVE FloorLog2(_)
FloorLog2(n) == IF n < 2 THEN 0 ELSE 1 + FloorLog2(n \div 2)

\* Length of the slice a[s:e] of an axis of length d (0 <= s, 0 <= e)
SliceLen(d, s, e) == Max(0, Min(e, d) - Min(s, d))

ArrayLevel(shape) ==
    [kind |-> "ndarray", dtype |-> "real", shape |-> shape, items |-> <<>>]
ListLevel(items) ==
    [kind |-> "list", dtype |-> "complex", shape |-> <<>>, items |-> items]

\* len(x): the number of items of a list, the number of rows of an array
PyLen(x) == IF x.kind = "list" THEN Len(x.items) ELSE x.shape[1]

\* ------------------------------------------------------------ exceptions
NoErr == [type |-> "None", msg |-> "", info |-> 0]
Raise(type, msg, info) == [type |-> type, msg |-> msg, info |-> info]

MsgGrayscale == "Input im must be grayscale"
MsgTooHigh == "Cannot buid pyramid heigher than {} levels"
MsgFloat32 == "Image batch must be torch.float32"
MsgGrayscaleBatch == "Images batch must be grayscale"
MsgTooHighBatch == "Cannot buid pyramid with more than {} levels"
MsgUnmatched == "Unmatched number of orientations"

\* ------------------------------------------------------------- the state
VARIABLES
    self,       \* the SCFpyr object: height, nbands, scale_factor, backend
    pc,         \* position of the running call, "idle" between calls
    call,       \* the last call started: "none", "build", "reconstruct", "level_size"
    outcome,    \* of that call: "none", "running", "returned", "raised"
    err,        \* the exception the last call raised, NoErr otherwise
    computed,   \* what the running/last call has computed: grid, rcos, masks, fft
    im,         \* build's argument: its shape and dtype
    lodft,      \* build: shape of the current low-pass spectrum
    log_rad,    \* shape of the current grid log_rad (angle has the same shape)
    height,     \* build: the remaining height of _build_levels
    coeff,      \* build: the levels collected so far; reconstruct: its argument
    pyr,        \* the pyramid build returned (optional)
    isobj,      \* reconstruct: the argument is the pyramid object itself
    rest,       \* reconstruct: the coeff argument of _reconstruct_levels
    frames,     \* reconstruct: the pending _reconstruct_levels frames
    resdft,     \* reconstruct: shape of the spectrum last returned
    sample,     \* reconstruct: real part of one output pixel, in tenths
    out,        \* the image reconstruct returned (optional)
    level,      \* level_size: its argument
    lsize,      \* level_size: the shape it returned (optional)
    Xrcos,      \* the running call's Xrcos, as its offset from rcosFn(1, -0.5)[0]
    btrace,     \* per level of the last build: the Xrcos of its masks and the
                \* phase factor multiplied into each band
    rtrace      \* the same per level of the running/last reconstruct

vars == <<self, pc, call, outcome, err, computed, im, lodft, log_rad, height,
          coeff, pyr, isobj, rest, frames, resdft, sample, out, level, lsize,
          Xrcos, btrace, rtrace>>

NoImage == [shape |-> <<>>, dtype |-> "none"]

\* SCFpyr_NumPy.__init__ / SCFpyr_PyTorch.__init__
Init ==
    /\ self \in [height : Heights, nbands : Bands,
                 scale_factor : ScaleFactors, backend : Backends]
    /\ pc = "idle"
    /\ call = "none"
    /\ outcome = "none"
    /\ err = NoErr
    /\ computed = {}
    /\ im = NoImage
    /\ lodft = <<>>
    /\ log_rad = <<>>
    /\ height = 0
    /\ coeff = <<>>
    /\ pyr = <<>>
    /\ isobj = FALSE
    /\ rest = <<>>
    /\ frames = <<>>
    /\ resdft = <<>>
    /\ sample = 0
    /\ out = <<>>
    /\ level = 0
    /\ lsize = <<>>
    /\ Xrcos = 0
    /\ btrace = <<>>
    /\ rtrace = <<>>

\* --------------------------------------------------------------- build
\* Mutant of MaxHeightPyr: one level too many is allowed
MaxHeightPyrOffByOne(h, w) == FloorLog2(Min(w, h)) - 1

\* max_height_pyr = int(np.floor(np.log2(min(width, height))) - 2)
MaxHeightPyr(h, w) == FloorLog2(Min(w, h)) - 2

\* low_ind_start = ceil((dims+0.5)/2) - ceil((ceil((dims-0.5)/2)+0.5)/2)
LowIndStart(d) ==
    CeilDiv(2 * d + 1, 4) - CeilDiv(2 * CeilDiv(2 * d - 1, 4) + 1, 4)

\* Mutant of LowIndEnd: the window length is rounded down
LowIndEndFloor(d) == LowIndStart(d) + (d \div 2)

\* low_ind_end = low_ind_start + ceil((dims-0.5)/2)
LowIndEnd(d) == LowIndStart(d) + CeilDiv(2 * d - 1, 4)

\* a[low_ind_start[0]:low_ind_end[0], low_ind_start[1]:low_ind_end[1]].shape
Crop(shape) ==
    << SliceLen(shape[1], LowIndStart(shape[1]), LowIndEnd(shape[1])),
       SliceLen(shape[2], LowIndStart(shape[2]), LowIndEnd(shape[2])) >>

\* Mutant of Orientations: the bands are taken after the crop
OrientationsCropped(shape, nbands) ==
    [b \in 1..nbands |->
        <<SliceLen(shape[1], LowIndStart(shape[1]), LowIndEnd(shape[1])),
          SliceLen(shape[2], LowIndStart(shape[2]), LowIndEnd(shape[2]))>>]

\* The list `orientations`: one band per b in range(nbands), each of lodft's shape
Orientations(shape, nbands) == [b \in 1..nbands |-> shape]

\* Mutant of IsBaseLevel: the recursion ends one level early
IsBaseLevelEarly(h) == h <= 2

\* The recursion of _build_levels ends when height <= 1
IsBaseLevel(h) == h <= 1


\* Complex numbers with integer parts, <<re, im>>
CMul(a, b) == <<a[1] * b[1] - a[2] * b[2], a[1] * b[2] + a[2] * b[1]>>

\* np.power(z, n) for an integer n >= 0
RECURSIVE CPow(_, _)
CPow(z, n) == IF n <= 0 THEN <<1, 0>> ELSE CMul(z, CPow(z, n - 1))

\* _build_levels: Xrcos = Xrcos - 1 in SCFpyr_NumPy,
\* Xrcos = Xrcos - np.log2(self.scale_factor) in SCFpyr_PyTorch
BuildXrcosShift(backend, scale_factor) ==
    IF backend = "PyTorch" THEN FloorLog2(scale_factor) ELSE 1

\* _reconstruct_levels: Xrcos = Xrcos - 1
ReconXrcosShift(scale_factor) == 1

\* self.lutsize = 1024 (and the local lutsize of _reconstruct_levels)
lutsize == 1024

\* The indices k of Xcosn = np.pi * np.array(range(-(2*lutsize+1), lutsize+2))
\* / lutsize: entry k is the angle pi*k/lutsize
XcosnIndex == (-(2 * lutsize + 1))..(lutsize + 1)

\* self.alpha = (self.Xcosn + np.pi) % (2.0*np.pi) - np.pi, in units of
\* pi/lutsize (the float64 computation gives the same comparison with pi/2
\* at every index of the table)
alpha(k) == ((k + lutsize) % (2 * lutsize)) - lutsize

Abs(x) == IF x < 0 THEN -x ELSE x

RECURSIVE factorial(_)
factorial(n) == IF n <= 0 THEN 1 ELSE n * factorial(n - 1)

\* const = 2^(2*order) * factorial(order)^2 / (nbands * factorial(2*order)),
\* kept as the fraction <<numerator, denominator>>
YcosnConst(nbands) ==
    LET order == nbands - 1
    IN  <<Pow2(2 * order) * factorial(order) * factorial(order),
          nbands * factorial(2 * order)>>

\* A lookup table Ycosn is kept by its closed form: entry k is
\* factor * sqrt(const) * cos(Xcosn[k])^order, multiplied by the boolean
\* (|alpha[k]| < pi/2) when the table is masked.
\* Builder: Ycosn = 2*np.sqrt(const) * np.power(np.cos(self.Xcosn), order)
\*                  * (np.abs(self.alpha) < np.pi/2)
ReconYcosnAsBuilder(nbands) ==
    [factor |-> 2, const |-> YcosnConst(nbands), order |-> nbands - 1,
     masked |-> TRUE]

BuildYcosn(nbands) ==
    [factor |-> 2, const |-> YcosnConst(nbands), order |-> nbands - 1,
     masked |-> TRUE]

\* Reconstructor: Ycosn = np.sqrt(const) * np.power(np.cos(Xcosn), order)
ReconYcosn(nbands) ==
    [factor |-> 1, const |-> YcosnConst(nbands), order |-> nbands - 1,
     masked |-> FALSE]

\* Entry k of a table: coef * sqrt(const) * cos(pi*x/lutsize)^order.  The
\* float64 cosine is non-zero at every index of the table, so two entries
\* with the same const, order and x are equal numbers iff their coef agree.
YcosnAt(Y, k) ==
    [coef |-> IF Y.masked /\ ~(2 * Abs(alpha(k)) < lutsize)
              THEN 0 ELSE Y.factor,
     const |-> Y.const, order |-> Y.order, x |-> k]

\* _build_levels: np.power(np.complex(0, -1), self.nbands - 1)
BuildPhase(nbands) == CPow(<<0, -1>>, nbands - 1)

ReconPhaseSameSign(nbands) == LET order == nbands - 1 IN CPow(<<0, -1>>, order)

\* _reconstruct_levels: order = self.nbands - 1; np.power(np.complex(0, 1), order)
ReconPhase(nbands) == LET order == nbands - 1 IN CPow(<<0, 1>>, order)

\* The exceptions of the precondition checks
NotGrayscale == Raise("AssertionError", MsgGrayscale, 0)
TooHigh(max_height_pyr) == Raise("AssertionError", MsgTooHigh, max_height_pyr)
NotFloat32 == Raise("AssertionError", MsgFloat32, 0)
NotGrayscaleBatch == Raise("AssertionError", MsgGrayscaleBatch, 0)
TooHighBatch(max_height_pyr) ==
    Raise("AssertionError", MsgTooHighBatch, max_height_pyr)
Unmatched == Raise("Exception", MsgUnmatched, 0)

\* The call ends by raising e
Raises(e) ==
    /\ err' = e
    /\ outcome' = "raised"
    /\ pc' = "idle"

\* A call starts: what the previous call returned is dropped
StartCall(name) ==
    /\ pc = "idle"
    /\ call' = name

\* The locals and results of reconstruct and of level_size, as they are when
\* no such call has been made
NoReconstruct ==
    /\ isobj' = FALSE
    /\ rest' = <<>>
    /\ frames' = <<>>
    /\ resdft' = <<>>
    /\ sample' = 0
    /\ out' = <<>>
    /\ rtrace' = <<>>
NoLevelSize ==
    /\ level' = 0
    /\ lsize' = <<>>

\* SCFpyr_NumPy.build, up to the first call of _build_levels
Build(shape) ==
    /\ self.backend = "NumPy"
    /\ StartCall("build")
    /\ im' = [shape |-> shape, dtype |-> "float64"]
    /\ pyr' = <<>>
    /\ coeff' = <<>>
    /\ IF Len(shape) # 2
       THEN /\ Raises(NotGrayscale)
            /\ computed' = {}
            /\ lodft' = <<>>
            /\ log_rad' = <<>>
            /\ height' = 0
       ELSE IF ~(MaxHeightPyr(shape[1], shape[2]) >= self.height)
       THEN /\ Raises(TooHigh(MaxHeightPyr(shape[1], shape[2])))
            /\ computed' = {}
            /\ lodft' = <<>>
            /\ log_rad' = <<>>
            /\ height' = 0
       ELSE /\ computed' = {"grid", "rcos", "masks", "fft"}
            /\ lodft' = shape
            /\ log_rad' = shape
            /\ height' = self.height - 1
            /\ err' = NoErr
            /\ outcome' = "running"
            /\ pc' = "build_levels"
    /\ Xrcos' = 0
    /\ btrace' = <<>>
    /\ NoReconstruct
    /\ NoLevelSize
    /\ UNCHANGED self

\* _build_levels, recursive case: the oriented bands of the current spectrum,
\* then the crop of the low-pass spectrum and of the grids, and the call for
\* the next level.  coeff holds the `orientations` lists of the pending
\* frames, outermost first.
BuildLevelsRec ==
    /\ pc = "build_levels"
    /\ ~IsBaseLevel(height)
    /\ coeff' = Append(coeff, ListLevel(Orientations(lodft, self.nbands)))
    /\ lodft' = Crop(lodft)
    /\ log_rad' = <<SliceLen(log_rad[1], LowIndStart(lodft[1]), LowIndEnd(lodft[1])),
                    SliceLen(log_rad[2], LowIndStart(lodft[2]), LowIndEnd(lodft[2]))>>
    /\ height' = height - 1
    /\ Xrcos' = Xrcos - BuildXrcosShift(self.backend, self.scale_factor)
    /\ btrace' = Append(btrace,
                        [Xrcos |-> Xrcos',
                         Ycosn |-> BuildYcosn(self.nbands),
                         phase |-> [b \in 1..self.nbands |->
                                       BuildPhase(self.nbands)]])
    /\ UNCHANGED <<self, pc, call, outcome, err, computed, im, pyr, isobj,
                   rest, frames, resdft, sample, out, level, lsize, rtrace>>

\* _build_levels, base case: coeff = [lo0.real]; every pending frame then
\* returns with coeff.insert(0, orientations), which leaves the bands in the
\* order of the recursion followed by the low-pass level.
BuildLevelsBase ==
    /\ pc = "build_levels"
    /\ IsBaseLevel(height)
    /\ coeff' = Append(coeff, ArrayLevel(lodft))
    /\ pc' = "build_assemble"
    /\ UNCHANGED <<self, call, outcome, err, computed, im, lodft, log_rad,
                   height, pyr, isobj, rest, frames, resdft, sample, out,
                   level, lsize, Xrcos, btrace, rtrace>>

NoneLevel == [kind |-> "None", dtype |-> "none", shape |-> <<>>, items |-> <<>>]

\* ComplexSteerablePyramid.__init__: self._coeff = [None]*self._height
NoneList(n) == [i \in 1..Max(0, n) |-> NoneLevel]

\* ComplexSteerablePyramid.set_level for every (level, level_coeff) of
\* enumerate(levels), on a _coeff list with the given slots
SetLevels(slots, levels) ==
    [i \in 1..Len(slots) |-> IF i <= Len(levels) THEN levels[i] ELSE slots[i]]

\* SCFpyr_NumPy.build after _build_levels returned: the high-pass level is
\* inserted in front and the pyramid object is filled level by level;
\* set_level raises IndexError at the first level that has no slot.
BuildAssemble ==
    /\ pc = "build_assemble"
    /\ LET levels == <<ArrayLevel(im.shape)>> \o coeff
           slots == NoneList(self.height)
       IN  /\ coeff' = levels
           /\ IF Len(levels) > Len(slots)
              THEN /\ Raises(Raise("IndexError",
                                   "list assignment index out of range",
                                   Len(slots)))
                   /\ pyr' = <<>>
              ELSE /\ pyr' = << [_height |-> self.height,
                                 _nbands |-> self.nbands,
                                 _coeff |-> SetLevels(slots, levels)] >>
                   /\ err' = NoErr
                   /\ outcome' = "returned"
                   /\ pc' = "idle"
    /\ UNCHANGED <<self, call, computed, im, lodft, log_rad, height, isobj,
                   rest, frames, resdft, sample, out, level, lsize, Xrcos,
                   btrace, rtrace>>

\* The batches handed to SCFpyr_PyTorch.build: float32 tensors of every
\* shape, float64 tensors of the batch shapes
TorchInputs ==
    {[shape |-> s, dtype |-> "float32"] : s \in ImShapes}
        \cup {[shape |-> s, dtype |-> "float64"] : s \in {t \in ImShapes : Len(t) = 3}}

\* SCFpyr_PyTorch.build: the three assertions, the grid, the masks and the
\* transform; the call of fft_utils.fftshift then fails, steerable/fft.py
\* defining batch_fftshift2d and batch_ifftshift2d only.
BuildTorch(im_batch) ==
    /\ self.backend = "PyTorch"
    /\ StartCall("build")
    /\ im' = im_batch
    /\ pyr' = <<>>
    /\ coeff' = <<>>
    /\ lodft' = <<>>
    /\ log_rad' = <<>>
    /\ height' = 0
    /\ LET shape == im_batch.shape
       IN  IF im_batch.dtype # "float32"
           THEN Raises(NotFloat32) /\ computed' = {}
           ELSE IF Len(shape) # 3
           THEN Raises(NotGrayscaleBatch) /\ computed' = {}
           ELSE IF ~(MaxHeightPyr(shape[2], shape[3]) >= self.height)
           THEN /\ Raises(TooHighBatch(MaxHeightPyr(shape[2], shape[3])))
                /\ computed' = {}
           ELSE /\ Raises(Raise("AttributeError", "fftshift", 0))
                /\ computed' = {"grid", "rcos", "masks", "fft"}
    /\ Xrcos' = 0
    /\ btrace' = <<>>
    /\ NoReconstruct
    /\ NoLevelSize
    /\ UNCHANGED self

\* ------------------------------------------------------------ level_size
\* x[0].shape: the shape of the first item of a list, of the first row of a
\* 2D array
Item0Shape(x) == IF x.kind = "list" THEN x.items[1] ELSE <<x.shape[2]>>

\* ComplexSteerablePyramid.level_size
level_size(p, lv) ==
    IF lv = 0
    THEN p._coeff[lv + 1].shape
    ELSE IF lv = p._nbands
    THEN Item0Shape(p._coeff[lv + 1])
    ELSE Item0Shape(p._coeff[lv + 1])

\* A caller queries the shape of a level of the pyramid it holds
LevelSize(lv) ==
    /\ pyr # <<>>
    /\ StartCall("level_size")
    /\ level' = lv
    /\ lsize' = <<level_size(pyr[1], lv)>>
    /\ err' = NoErr
    /\ outcome' = "returned"
    /\ computed' = {}
    /\ coeff' = <<>>
    /\ log_rad' = <<>>
    /\ Xrcos' = 0
    /\ NoReconstruct
    /\ UNCHANGED <<self, pc, im, lodft, height, pyr, btrace>>

\* ----------------------------------------------------------- reconstruct
\* The list c with the band list at Python index k holding m bands
Tamper(c, k, m) ==
    [i \in 1..Len(c) |->
        IF i = k + 1
        THEN ListLevel([b \in 1..m |-> c[i].items[1]])
        ELSE c[i]]

\* The coefficient lists a caller holding pyramid p hands to reconstruct:
\* the levels as built, and the same with one band list one band short or
\* one band long
CoeffLists(p) ==
    {p._coeff} \cup
    {Tamper(p._coeff, k, m) :
        k \in {j \in 1..(Len(p._coeff) - 1) : p._coeff[j + 1].kind = "list"},
        m \in {p._nbands - 1, p._nbands + 1}}

\* Mutant of OrientationsMatch: surplus bands are accepted
OrientationsAtLeast(nbands, c) == nbands <= PyLen(c[2])

\* if self.nbands != len(coeff[1])
OrientationsMatch(nbands, c) == nbands = PyLen(c[2])

\* .real.astype(int) of a value given in tenths: the fraction is dropped
AstypeInt(t) == IF t >= 0 THEN t \div 10 ELSE 0 - ((0 - t) \div 10)

\* reconstruct, up to the call of _reconstruct_levels.  The argument is the
\* pyramid object build returned (obj) or a list of levels c.
Reconstruct(obj, c) ==
    /\ pyr # <<>>
    /\ StartCall("reconstruct")
    /\ isobj' = obj
    /\ coeff' = c
    /\ frames' = <<>>
    /\ resdft' = <<>>
    /\ sample' = 0
    /\ out' = <<>>
    /\ NoLevelSize
    /\ IF obj
       THEN /\ Raises(Raise("TypeError", "object is not subscriptable", 0))
            /\ computed' = {}
            /\ log_rad' = <<>>
            /\ rest' = <<>>
       ELSE IF ~OrientationsMatch(self.nbands, c)
       THEN /\ Raises(Unmatched)
            /\ computed' = {}
            /\ log_rad' = <<>>
            /\ rest' = <<>>
       ELSE /\ computed' = {"grid", "rcos", "masks"}
            /\ log_rad' = c[1].shape
            /\ rest' = Tail(c)
            /\ err' = NoErr
            /\ outcome' = "running"
            /\ pc' = "rec_levels"
    /\ Xrcos' = 0
    /\ rtrace' = <<>>
    /\ UNCHANGED <<self, im, lodft, height, pyr, btrace>>

\* _reconstruct_levels, recursive case: np.zeros(coeff[0][0].shape) and the
\* loop over range(self.nbands) index the band list, which raises IndexError
\* when it is shorter than nbands (bands beyond nbands are never read); then
\* the crop window and the call for coeff[1:].
RecLevelsRec ==
    /\ pc = "rec_levels"
    /\ Len(rest) # 1
    /\ LET bands == rest[1].items
       IN  IF Len(bands) < self.nbands
           THEN /\ Raises(Raise("IndexError", "list index out of range",
                                Len(bands)))
                /\ computed' = computed \cup
                                 (IF Len(bands) >= 1 THEN {"fft"} ELSE {})
                /\ rtrace' = Append(rtrace,
                       [Xrcos |-> Xrcos - ReconXrcosShift(self.scale_factor),
                        Ycosn |-> ReconYcosn(self.nbands),
                        phase |-> [b \in 1..Len(bands) |->
                                      ReconPhase(self.nbands)]])
                /\ UNCHANGED <<log_rad, rest, frames>>
           ELSE LET dims == bands[1]
                    lostart == <<LowIndStart(dims[1]), LowIndStart(dims[2])>>
                    loend == <<LowIndEnd(dims[1]), LowIndEnd(dims[2])>>
                IN  /\ frames' = Append(frames, [dims |-> dims,
                                                 lostart |-> lostart,
                                                 loend |-> loend,
                                                 log_rad |-> log_rad,
                                                 Xrcos |-> Xrcos - ReconXrcosShift(self.scale_factor)])
                    /\ log_rad' = <<SliceLen(log_rad[1], lostart[1], loend[1]),
                                    SliceLen(log_rad[2], lostart[2], loend[2])>>
                    /\ rest' = Tail(rest)
                    /\ computed' = computed \cup {"fft"}
                    /\ rtrace' = Append(rtrace,
                           [Xrcos |-> Xrcos - ReconXrcosShift(self.scale_factor),
                            Ycosn |-> ReconYcosn(self.nbands),
                            phase |-> [b \in 1..self.nbands |->
                                          ReconPhase(self.nbands)]])
                    /\ UNCHANGED <<pc, outcome, err>>
    /\ Xrcos' = Xrcos - ReconXrcosShift(self.scale_factor)
    /\ UNCHANGED <<self, call, im, lodft, height, coeff, pyr, isobj, resdft,
                   sample, out, level, lsize, btrace>>

\* _reconstruct_levels, base case: the transform of the single level left
RecLevelsBase ==
    /\ pc = "rec_levels"
    /\ Len(rest) = 1
    /\ resdft' = rest[1].shape
    /\ computed' = computed \cup {"fft"}
    /\ pc' = IF frames = <<>> THEN "rec_final" ELSE "rec_return"
    /\ UNCHANGED <<self, call, outcome, err, im, lodft, log_rad, height,
                   coeff, pyr, isobj, rest, frames, sample, out, level, lsize,
                   Xrcos, btrace, rtrace>>

\* _reconstruct_levels after the recursive call returned nresdft:
\* resdft = np.zeros(dims); resdft[lostart:loend] = nresdft * lomask, which
\* raises ValueError unless nresdft, lomask and the window agree in shape.
RecReturn ==
    /\ pc = "rec_return"
    /\ LET f == frames[Len(frames)]
           window == <<SliceLen(f.dims[1], f.lostart[1], f.loend[1]),
                       SliceLen(f.dims[2], f.lostart[2], f.loend[2])>>
       IN  /\ frames' = SubSeq(frames, 1, Len(frames) - 1)
           /\ log_rad' = f.log_rad
           /\ Xrcos' = f.Xrcos
           /\ IF resdft = log_rad /\ resdft = window
              THEN /\ resdft' = f.dims
                   /\ pc' = IF Len(frames) = 1 THEN "rec_final" ELSE "rec_return"
                   /\ UNCHANGED <<outcome, err>>
              ELSE /\ Raises(Raise("ValueError", "could not broadcast", 0))
                   /\ UNCHANGED resdft
    /\ UNCHANGED <<self, call, computed, im, lodft, height, coeff, pyr, isobj,
                   rest, sample, out, level, lsize, btrace, rtrace>>

\* reconstruct after _reconstruct_levels returned tempdft: the high-pass
\* level is transformed and added, and the real part of the inverse
\* transform is converted with astype(int).  x is the real part at one pixel.
RecFinal(x) ==
    /\ pc = "rec_final"
    /\ sample' = x
    /\ out' = << [shape |-> coeff[1].shape, pixel |-> AstypeInt(x)] >>
    /\ err' = NoErr
    /\ outcome' = "returned"
    /\ pc' = "idle"
    /\ Xrcos' = 0
    /\ UNCHANGED <<self, call, computed, im, lodft, log_rad, height, coeff,
                   pyr, isobj, rest, frames, resdft, level, lsize, btrace,
                   rtrace>>

Next ==
    \/ \E shape \in ImShapes : Build(shape)
    \/ BuildLevelsRec
    \/ BuildLevelsBase
    \/ BuildAssemble
    \/ \E im_batch \in TorchInputs : BuildTorch(im_batch)
    \/ \E lv \in 0..(self.height - 1) : LevelSize(lv)
    \/ Reconstruct(TRUE, <<>>)
    \/ \E c \in (IF pyr = <<>> THEN {} ELSE CoeffLists(pyr[1])) :
          Reconstruct(FALSE, c)
    \/ RecLevelsRec
    \/ RecLevelsBase
    \/ RecReturn
    \/ \E x \in Samples : RecFinal(x)

Spec == Init /\ [][Next]_vars


\* ================================================================ claims
\* The shape of a level: of the array, or of the first band of a band list
LevelShape(l) == IF l.kind = "list" THEN l.items[1] ELSE l.shape

\* Nearest integer of a value given in tenths (halves away from zero)
RoundNearest(t) ==
    IF t >= 0 THEN (t + 5) \div 10 ELSE 0 - ((5 - t) \div 10)

\* The image of the last build call is a single 2D image (for the PyTorch
\* builder: a float32 batch of 2D images); its sides
IsImageBuild ==
    /\ call = "build"
    /\ \/ self.backend = "NumPy" /\ Len(im.shape) = 2
       \/ self.backend = "PyTorch" /\ Len(im.shape) = 3 /\ im.dtype = "float32"
ImageSides ==
    IF self.backend = "NumPy" THEN im.shape ELSE <<im.shape[2], im.shape[3]>>

\* C1: reconstruct, called with the value build returned, succeeds and
\* returns an image of the input's shape (whose pixels differ from the
\* input's by at most 2; the model carries no input pixels, so only success
\* and shape are stated).
C1_RoundTripSucceeds ==
    (call = "reconstruct" /\ isobj /\ pc = "idle")
        => /\ outcome = "returned"
           /\ out # <<>>
           /\ out[1].shape = im.shape

\* C2: a pyramid returned by build has exactly `height` levels: level 0 a
\* real array of the input's shape, levels 1..height-2 lists of exactly
\* nbands complex arrays, level height-1 a real 2D array.
C2_PyramidLevels ==
    pyr # <<>> =>
        LET c == pyr[1]._coeff
            h == self.height
        IN  /\ h >= 2
            /\ Len(c) = h
            /\ c[1].kind = "ndarray" /\ c[1].dtype = "real"
            /\ c[1].shape = im.shape
            /\ \A k \in 1..(h - 2) :
                   /\ c[k + 1].kind = "list"
                   /\ c[k + 1].dtype = "complex"
                   /\ Len(c[k + 1].items) = self.nbands
            /\ c[h].kind = "ndarray" /\ c[h].dtype = "real"
            /\ Len(c[h].shape) = 2

C2_Witness ==
    /\ pyr # <<>>
    /\ self.height >= 4
    /\ self.nbands >= 2

\* C3: build on a 2D image with floor(log2(min(H,W))) - 2 < height, that is
\* min(H,W) < 2^(height+2), fails at the depth assertion before any grid,
\* mask or spectrum is computed and returns no pyramid; with
\* floor(log2(min(H,W))) - 2 >= height the depth assertion does not fail.
C3_TooDeepFailsEagerly ==
    IsImageBuild =>
        IF Min(ImageSides[1], ImageSides[2]) < Pow2(self.height + 2)
        THEN /\ pc = "idle"
             /\ outcome = "raised"
             /\ err.type = "AssertionError"
             /\ err.msg \in {MsgTooHigh, MsgTooHighBatch}
             /\ computed = {}
             /\ pyr = <<>>
        ELSE err.msg \notin {MsgTooHigh, MsgTooHighBatch}

C3_Witness ==
    /\ IsImageBuild
    /\ self.backend = "NumPy"
    /\ self.height = 3
    /\ im.shape = <<17, 32>>
    /\ err.msg = MsgTooHigh

\* C4: reconstruct on a list of levels whose coeff[1] does not have exactly
\* nbands entries fails with the mismatch exception before any mask or
\* transform is computed, and returns no image.
C4_MismatchFailsEagerly ==
    (call = "reconstruct" /\ ~isobj /\ PyLen(coeff[2]) # self.nbands)
        => /\ pc = "idle"
           /\ outcome = "raised"
           /\ err.type = "Exception"
           /\ err.msg = MsgUnmatched
           /\ computed = {}
           /\ out = <<>>

C4_Witness ==
    /\ call = "reconstruct"
    /\ ~isobj
    /\ self.nbands = 4
    /\ coeff[2].kind = "list"
    /\ Len(coeff[2].items) = 3
    /\ err.msg = MsgUnmatched

\* C5: every pixel reconstruct returns is the real part of the inverse
\* transform rounded to the nearest integer (1.7 gives 2, -1.7 gives -2).
C5_RoundedToNearest ==
    out # <<>> => out[1].pixel = RoundNearest(sample)

\* C6: in a pyramid returned by build, for k = 1..height-2 and on each axis,
\* the dimension of level k+1 is smaller than the dimension d of level k and
\* equals the crop window length end - start = ceil(d/2), and the window
\* [start, end) lies inside [0, d).
C6_CropShrinks ==
    pyr # <<>> =>
        \A k \in 1..(self.height - 2) : \A ax \in 1..2 :
            LET d == LevelShape(pyr[1]._coeff[k + 1])[ax]
                dnext == LevelShape(pyr[1]._coeff[k + 2])[ax]
            IN  /\ dnext < d
                /\ dnext = CeilDiv(d, 2)
                /\ LowIndEnd(d) - LowIndStart(d) = CeilDiv(d, 2)
                /\ 0 <= LowIndStart(d)
                /\ LowIndEnd(d) <= d

C6_Witness ==
    /\ pyr # <<>>
    /\ self.height >= 4
    /\ im.shape[1] % 2 = 1
    /\ LevelShape(pyr[1]._coeff[3])[1] % 2 = 1

\* The scenario of C7: a 128x128 image, height 5, 4 bands
C7_Scenario ==
    /\ pyr # <<>>
    /\ im.shape = <<128, 128>>
    /\ self.height = 5
    /\ self.nbands = 4

\* C7 as stated: in the scenario the four arrays of coeff[1] share the
\* shape 64x64, half of the 128x128 high-pass level.
C7_FirstBandsHalved ==
    C7_Scenario =>
        /\ Len(pyr[1]._coeff[2].items) = 4
        /\ \A b \in 1..4 : pyr[1]._coeff[2].items[b] = <<64, 64>>

\* C7 as amended: in the scenario the four arrays of coeff[1] share the
\* shape 128x128 of the high-pass level coeff[0]; the crop window first
\* shows in coeff[2], whose arrays are 64x64.
C7_FirstBandsFullSize ==
    C7_Scenario =>
        /\ Len(pyr[1]._coeff[2].items) = 4
        /\ \A b \in 1..4 : pyr[1]._coeff[2].items[b] = <<128, 128>>
        /\ \A b \in 1..4 : pyr[1]._coeff[2].items[b] = pyr[1]._coeff[1].shape
        /\ \A b \in 1..4 : pyr[1]._coeff[3].items[b] = <<64, 64>>

C7_Witness ==
    /\ C7_Scenario
    /\ call = "build"
    /\ outcome = "returned"

\* C8: level_size returns, for every level 0..height-1 of a pyramid build
\* returned, the two-element shape of that level.
C8_LevelSizeIsShape ==
    (call = "level_size" /\ lsize # <<>>)
        => /\ Len(lsize[1]) = 2
           /\ lsize[1] = LevelShape(pyr[1]._coeff[level + 1])

\* C9: the failure of build on an array that is not 2D has a kind distinct
\* from the kind raised for a pyramid that is too deep and from the kind of
\* reconstruct's mismatch failure.
C9_DistinctKinds ==
    (call = "build" /\ err.msg \in {MsgGrayscale, MsgGrayscaleBatch})
        => err.type \notin
               {TooHigh(0).type, TooHighBatch(0).type, Unmatched.type}

\* C10: reconstruct fails at its start, before any computation, whenever
\* any band-pass level of the list it is given has a number of bands other
\* than nbands.
C10_EveryLevelChecked ==
    (/\ call = "reconstruct"
     /\ ~isobj
     /\ \E k \in 2..Len(coeff) :
            coeff[k].kind = "list" /\ Len(coeff[k].items) # self.nbands)
        => /\ pc = "idle"
           /\ outcome = "raised"
           /\ err.msg = MsgUnmatched
           /\ computed = {}

\* C11: a build call either fails at a precondition check, before anything
\* is computed, or runs its recursion and returns a complete pyramid; it
\* never fails after the precondition checks have passed.
C11_BuildAllOrNothing ==
    (call = "build" /\ self.backend = "NumPy" /\ pc = "idle")
        => /\ outcome = "raised" =>
                  /\ computed = {}
                  /\ err.msg \in {MsgGrayscale, MsgTooHigh}
           /\ outcome = "returned" => pyr # <<>>

\* C12: at every recursive level the builder has moved the radial abscissa
\* by log2(scale_factor) per level, and the reconstructor uses the same
\* abscissa as the builder at the same level.
C12_ShiftByLogScaleFactor ==
    /\ \A l \in 1..Len(btrace) :
           btrace[l].Xrcos = -(l * FloorLog2(self.scale_factor))
    /\ \A l \in 1..Min(Len(btrace), Len(rtrace)) :
           rtrace[l].Xrcos = btrace[l].Xrcos

\* The reconstructor has just rebuilt its table at a recursive level that the
\* builder also went through.
C13_Rebuilt ==
    /\ call = "reconstruct" /\ pc = "rec_levels"
    /\ Len(rtrace) >= 1 /\ Len(rtrace) <= Len(btrace)

\* C13 as stated: at every recursive level, at every index of the table and
\* for every nbands, the reconstructor's Ycosn entry equals the builder's.
C13_YcosnIdentical ==
    C13_Rebuilt =>
        LET l == Len(rtrace)
        IN  \A k \in XcosnIndex :
               YcosnAt(rtrace[l].Ycosn, k) = YcosnAt(btrace[l].Ycosn, k)

\* C13, amended: at every recursive level and every index k the two tables
\* share const, order and abscissa, the reconstructor's entry is
\* sqrt(const)*cos^order with no angular restriction, and the builder's is
\* twice that where |alpha| < pi/2 and zero elsewhere; the table has
\* 3*lutsize + 3 = 3075 entries.
C13_YcosnHalfUnmasked ==
    C13_Rebuilt =>
        LET l == Len(rtrace)
        IN  /\ Cardinality(XcosnIndex) = 3 * lutsize + 3
            /\ \A k \in XcosnIndex :
               LET r == YcosnAt(rtrace[l].Ycosn, k)
                   b == YcosnAt(btrace[l].Ycosn, k)
               IN  /\ r.const = b.const /\ r.order = b.order /\ r.x = b.x
                   /\ r.order = self.nbands - 1
                   /\ r.coef = 1
                   /\ b.coef = IF 2 * Abs(alpha(k)) < lutsize THEN 2 ELSE 0

\* A reconstruct of a built pyramid is at its second recursive level, with
\* more than one orientation.
C13_Witness ==
    /\ C13_Rebuilt
    /\ Len(rtrace) >= 2
    /\ self.nbands >= 2

\* C14: for every nbands the builder's factor (-i)^(nbands-1) times the
\* reconstructor's factor (+i)^(nbands-1) is exactly 1; the builder has
\* multiplied its factor into every orientation of every band-pass level,
\* the reconstructor into every orientation of every level it has completed,
\* and the two factors of a band cancel.
C14_PhasesCancel ==
    /\ \A n \in Bands : CMul(BuildPhase(n), ReconPhase(n)) = <<1, 0>>
    /\ \A l \in 1..Len(btrace) :
           /\ Len(btrace[l].phase) = self.nbands
           /\ \A b \in 1..self.nbands :
                  btrace[l].phase[b] = BuildPhase(self.nbands)
    /\ \A l \in 1..Len(rtrace) :
           /\ (outcome # "raised" \/ l < Len(rtrace))
                  => Len(rtrace[l].phase) = self.nbands
           /\ l <= Len(btrace) =>
                  \A b \in 1..Len(rtrace[l].phase) :
                     CMul(btrace[l].phase[b], rtrace[l].phase[b]) = <<1, 0>>

\* A reconstruct with an even nbands, whose factors are not real, has
\* returned after two band-pass levels.
C14_Witness ==
    /\ call = "reconstruct" /\ pc = "idle" /\ outcome = "returned"
    /\ self.nbands = 4
    /\ Len(rtrace) >= 2 /\ Len(btrace) >= 2
    /\ btrace[2].phase[4] = <<0, 1>>
    /\ rtrace[2].phase[4] = <<0, -1>>

====
